---- MODULE Spec2Model ----
(***************************************************************************)
(* Model of the travel tool layer of travel_master (src/tools.py):         *)
(* FlightSearchTool, HotelSearchTool, NearbyPlacesTool, ExchangeRateTool.  *)
(*                                                                         *)
(* The program is single threaded: one tool entry point runs at a time,    *)
(* and blocks on each HTTP request until its response arrives.  A step of  *)
(* the model is the code that runs between two blocking points: a call of  *)
(* an entry point up to its first request (or its return), and the         *)
(* handling of a response up to the next request (or the return).  The     *)
(* provider's responses and the passing of time are the environment.       *)
(*                                                                         *)
(* The Korean city names of the lookup tables are written in Latin         *)
(* letters (SANY reads ASCII strings only): "서울" is "Seoul", and so on.  *)
(***************************************************************************)
EXTENDS Integers, Sequences, FiniteSets, TLC

VARIABLES
    now,               \* time.time(), in seconds
    amadeus_token,     \* tool -> self._amadeus_token {access_token, expires_at}
    op,                \* the entry point being run, or "idle"
    pc,                \* position in it: the request it is blocked on, or "done"
    self,              \* the Amadeus tool whose token is in use (None otherwise)
    cont,              \* what get_amadeus_token's caller does with the token
    args,              \* the arguments of the call
    bearer,            \* value returned by the last get_amadeus_token call
    city_hotels,       \* HotelSearchTool._run: the listing
    pending,           \* the items the running for loop has still to visit
    available_hotels,  \* HotelSearchTool._run: the records collected so far
    nearby_places,     \* NearbyPlacesTool._run: places still to be detailed
    detailed_places,   \* NearbyPlacesTool._run: the records collected so far
    result,            \* what the call returned or raised
    requests,          \* HTTP requests issued by the current call, in order
    response,          \* the last HTTP response received by the current call
    priced,            \* history: the price calls of the current hotel search
    nearby_found,      \* history: how many places the nearby search answered
    answered,          \* history: how many responses the current call received
    tcalls,            \* history: get_amadeus_token calls made by the current call
    issued             \* history: tool -> the last successful credential exchange

vars == <<now, amadeus_token, op, pc, self, cont, args, bearer, city_hotels,
          pending, available_hotels, nearby_places, detailed_places, result,
          requests, response, priced, nearby_found, answered, tcalls, issued>>

-----------------------------------------------------------------------------
(* Bounds of the model. *)

TickStep == 30        \* the clock advances in steps of TickStep seconds
MaxTime == 90         \* the clock stops at MaxTime
MaxListed == 2        \* most hotels the provider lists
MaxPlaces == 6        \* most places the nearby search returns
MaxOffers == 2        \* most flight offers the provider returns

-----------------------------------------------------------------------------
(* Python values. *)

None == "None"

\* Python truthiness of a value that is None or a string.
Truthy(v) == v /= None /\ v /= ""

\* dict.get(key): the mapped value, or None.
DictGet(d, key) == IF key \in DOMAIN d THEN d[key] ELSE None

Min(a, b) == IF a <= b THEN a ELSE b
Max(a, b) == IF a >= b THEN a ELSE b

\* xs[:n], Python's slice: a negative n counts from the end.
SliceTo(xs, n) ==
    LET stop == IF n >= 0 THEN Min(n, Len(xs)) ELSE Max(Len(xs) + n, 0)
    IN  SubSeq(xs, 1, stop)

\* Outcome of a call: a returned value or a raised exception.
NoResult == [status |-> "none", value |-> None, error |-> None, detail |-> None]
Returned(v) == [status |-> "returned", value |-> v, error |-> None, detail |-> None]
Raised(e, d) == [status |-> "raised", value |-> None, error |-> e, detail |-> d]

Tools == {"flight", "hotel"}

-----------------------------------------------------------------------------
(* City-code resolution. *)

FlightCityCodes ==
    ("Seoul" :> "SEL") @@ ("Busan" :> "PUS") @@ ("Jeju" :> "CJU") @@
    ("Daegu" :> "TAE") @@ ("Incheon" :> "ICN") @@
    ("Osaka" :> "OSA") @@ ("Tokyo" :> "TYO") @@ ("Fukuoka" :> "FUK") @@
    ("Sapporo" :> "SPK") @@ ("Nagoya" :> "NGO") @@
    ("Okinawa" :> "OKA") @@ ("Kyoto" :> "UKY") @@ ("Yokohama" :> "YOK") @@
    ("Hiroshima" :> "HIJ") @@
    ("Beijing" :> "BJS") @@ ("Shanghai" :> "SHA") @@ ("Guangzhou" :> "CAN") @@
    ("Shenzhen" :> "SZX") @@ ("Qingdao" :> "TAO") @@
    ("HongKong" :> "HKG") @@ ("Macau" :> "MFM") @@ ("Xian" :> "SIA") @@
    ("Taipei" :> "TPE") @@ ("Kaohsiung" :> "KHH") @@
    ("Bangkok" :> "BKK") @@ ("Phuket" :> "HKT") @@ ("ChiangMai" :> "CNX") @@
    ("Hanoi" :> "HAN") @@ ("HoChiMinh" :> "SGN") @@ ("DaNang" :> "DAD") @@
    ("NhaTrang" :> "NHA") @@
    ("Manila" :> "MNL") @@ ("Cebu" :> "CEB") @@ ("Boracay" :> "MPH") @@
    ("Singapore" :> "SIN") @@
    ("KualaLumpur" :> "KUL") @@ ("KotaKinabalu" :> "BKI") @@ ("Penang" :> "PEN") @@
    ("Jakarta" :> "JKT") @@ ("Bali" :> "DPS") @@ ("Yogyakarta" :> "JOG") @@
    ("Delhi" :> "DEL") @@ ("Mumbai" :> "BOM") @@ ("Bangalore" :> "BLR")

HotelCityCodes ==
    ("Seoul" :> "SEL") @@ ("Busan" :> "PUS") @@ ("Jeju" :> "CJU") @@
    ("Incheon" :> "ICN") @@ ("Daegu" :> "TAE") @@
    ("Osaka" :> "OSA") @@ ("Tokyo" :> "TYO") @@ ("Fukuoka" :> "FUK") @@
    ("Sapporo" :> "SPK") @@ ("Kyoto" :> "UKY") @@
    ("HongKong" :> "HKG") @@ ("Taipei" :> "TPE") @@ ("Bangkok" :> "BKK") @@
    ("Singapore" :> "SIN") @@
    ("Hanoi" :> "HAN") @@ ("HoChiMinh" :> "SGN") @@ ("DaNang" :> "DAD")

\* A faulty variant of city_codes: the hotel tool's copy of the table has
\* drifted from the flight tool's in one code.
city_codes_drifted(tool) ==
    IF tool = "flight" THEN FlightCityCodes
    ELSE ("Kyoto" :> "KIX") @@ HotelCityCodes

\* The table each tool's get_city_code embeds.
city_codes(tool) == IF tool = "flight" THEN FlightCityCodes ELSE HotelCityCodes

\* City names no table holds, and the empty name.
UnknownCities == {"London", "Paris", ""}

CityNames == DOMAIN FlightCityCodes \cup DOMAIN HotelCityCodes \cup UnknownCities

\* A faulty variant of get_city_code: the lookup's result is returned unchecked.
get_city_code_unchecked(tool, city_name) ==
    Returned(DictGet(city_codes(tool), city_name))

\* get_city_code(self, city_name): code = city_codes.get(city_name);
\* raise ValueError if not code; return code.
get_city_code(tool, city_name) ==
    LET code == DictGet(city_codes(tool), city_name)
    IN  IF ~Truthy(code)
        THEN Raised("UnknownLocation", city_name)
        ELSE Returned(code)

-----------------------------------------------------------------------------
(* Token cache. *)

Margin == 60

\* What the provider's credential exchange can answer.
Tokens == {"tokA", "tokB"}
TTLs == {30, 120}
AuthBodies == {"invalid_client", "rate_limited"}
HttpOK == 200
HttpStatuses == {200, 401}

InitialToken == [access_token |-> None, expires_at |-> 0]
NoIssue == [token |-> None, at |-> 0, expires_in |-> 0]

\* The guard of get_amadeus_token: the cached token is returned as it is.
TokenFresh(tool) ==
    /\ Truthy(amadeus_token[tool].access_token)
    /\ now < amadeus_token[tool].expires_at

\* A faulty variant of NewExpiry: the safety margin is forgotten.
NewExpiry_nomargin(t, expires_in) == t + expires_in

\* expires_at as get_amadeus_token stores it.
NewExpiry(t, expires_in) == t + expires_in - Margin

Req(kind, arg) == <<kind, arg>>
Kind(r) == r[1]
Arg(r) == r[2]

CountKind(log, kind) == Cardinality({i \in 1..Len(log) : Kind(log[i]) = kind})

\* Credential-exchange requests in a log of requests.
Exchanges(log) == CountKind(log, "token")

NoCont == <<>>
NoResponse == [kind |-> "none"]

\* requests.get / requests.post: the request goes out and the call blocks.
Issue(r) ==
    /\ requests' = Append(requests, r)
    /\ pc' = "await_" \o Kind(r)

\* The caller of get_amadeus_token goes on with the token it got: a direct
\* call returns it, a search puts it in the Authorization header of request k.
WithToken(k) ==
    IF k = NoCont
    THEN /\ pc' = "done"
         /\ result' = Returned(bearer')
         /\ requests' = requests
    ELSE /\ Issue(k)
         /\ result' = result

\* get_amadeus_token(self), up to its return or its credential exchange.
get_amadeus_token(tool, k) ==
    /\ tcalls' = tcalls + 1
    /\ IF TokenFresh(tool)
       THEN /\ bearer' = amadeus_token[tool].access_token
            /\ cont' = NoCont
            /\ WithToken(k)
       ELSE /\ bearer' = None
            /\ cont' = k
            /\ Issue(Req("token", tool))
            /\ result' = result

\* A faulty variant of AuthFailed: the stale token is returned.
AuthFailed_stale(text) ==
    /\ bearer' = amadeus_token[self].access_token
    /\ result' = Returned(amadeus_token[self].access_token)
    /\ pc' = "done"
    /\ requests' = requests
    /\ amadeus_token' = amadeus_token

\* A faulty variant of AuthFailed: the expiry is stored before the status is
\* looked at, so the old token counts as fresh again.
AuthFailed_renewed(text) ==
    /\ bearer' = None
    /\ result' = Raised("AuthFailure", text)
    /\ pc' = "done"
    /\ requests' = requests
    /\ amadeus_token' = [amadeus_token EXCEPT ![self].expires_at = now + 120 - 60]

\* A faulty variant of AuthFailed: a hotel search takes the failure as one
\* more candidate without a price and returns what it has collected.
AuthFailed_tolerated(text) ==
    /\ bearer' = None
    /\ result' = IF op = "hotel_run" THEN Returned(available_hotels)
                 ELSE Raised("AuthFailure", text)
    /\ pc' = "done"
    /\ requests' = requests
    /\ amadeus_token' = amadeus_token

\* raise Exception("Amadeus 토큰 발급 실패", response.text), before anything
\* is stored: the cache keeps what it held.
AuthFailed(text) ==
    /\ bearer' = None
    /\ result' = Raised("AuthFailure", text)
    /\ pc' = "done"
    /\ requests' = requests
    /\ amadeus_token' = amadeus_token

\* get_amadeus_token(self), from the response of the credential exchange on.
TokenResponse ==
    /\ pc = "await_token"
    /\ answered' = answered + 1
    /\ \E status \in HttpStatuses, tok \in Tokens, ttl \in TTLs, text \in AuthBodies :
         /\ response' = [kind |-> "token", status |-> status,
                         body |-> IF status = HttpOK THEN tok ELSE text]
         /\ cont' = NoCont
         /\ IF status /= HttpOK
            THEN /\ AuthFailed(text)
                 /\ UNCHANGED issued
            ELSE /\ amadeus_token' = [amadeus_token EXCEPT ![self] =
                        [access_token |-> tok, expires_at |-> NewExpiry(now, ttl)]]
                 /\ issued' = [issued EXCEPT ![self] =
                        [token |-> tok, at |-> now, expires_in |-> ttl]]
                 /\ bearer' = amadeus_token'[self].access_token
                 /\ WithToken(cont)
    /\ UNCHANGED <<now, op, self, args, city_hotels, pending, available_hotels,
                   nearby_places, detailed_places, priced, nearby_found, tcalls>>

\* A direct call of get_amadeus_token on one of the two Amadeus tools.
CallGetToken ==
    /\ pc = "idle"
    /\ \E tool \in Tools :
         /\ op' = "get_amadeus_token"
         /\ self' = tool
         /\ args' = [tool |-> tool]
         /\ get_amadeus_token(tool, NoCont)
    /\ UNCHANGED <<now, amadeus_token, issued, city_hotels, pending,
                   available_hotels, nearby_places, detailed_places, response, answered, priced, nearby_found>>

\* A direct call of get_city_code on one of the two Amadeus tools.
CallGetCityCode ==
    /\ pc = "idle"
    /\ \E tool \in Tools, city_name \in CityNames :
         /\ op' = "get_city_code"
         /\ self' = tool
         /\ args' = [tool |-> tool, city_name |-> city_name]
         /\ result' = get_city_code(tool, city_name)
    /\ pc' = "done"
    /\ UNCHANGED <<now, amadeus_token, issued, cont, bearer, city_hotels, pending,
                   available_hotels, nearby_places, detailed_places, requests,
                   response, answered, priced, nearby_found, tcalls>>

-----------------------------------------------------------------------------
(* Flight search. *)

\* What the flight-offers endpoint can answer.
FlightOffers == {[total |-> "100.00", currency |-> "KRW", carrierCode |-> "KE"],
                 [total |-> "250.00", currency |-> "KRW", carrierCode |-> "OZ"]}
SeqsUpTo(S, n) == UNION {[1..k -> S] : k \in 0..n}
FlightBodies ==
    {[has_data |-> FALSE, data |-> <<>>, text |-> "{}"]} \cup
    {[has_data |-> TRUE, data |-> d, text |-> "offers"] : d \in SeqsUpTo(FlightOffers, MaxOffers)}
NoBody == [has_data |-> FALSE, data |-> <<>>, text |-> ""]
FlightResponses ==
    {[status |-> 200, body |-> b] : b \in FlightBodies} \cup
    {[status |-> 400, body |-> [NoBody EXCEPT !.text = "bad request"]],
     [status |-> 500, body |-> [NoBody EXCEPT !.text = "server error"]]}

\* The cities a search is asked for: in both tables, in the flight table
\* only, in no table.
SearchCities == {"Incheon", "Osaka", "Bali", "London"}

\* The record _run builds of one flight offer.
flight_info(offer, origin_code, destination_code) ==
    [price |-> offer.total, currency |-> offer.currency,
     origin |-> origin_code, destination |-> destination_code,
     airline |-> offer.carrierCode]

\* The loop of FlightSearchTool._run over flight_data["data"].
flight_records(data, origin_code, destination_code) ==
    [i \in 1..Len(data) |-> flight_info(data[i], origin_code, destination_code)]

\* A faulty variant of flight_result: no offers is a failure.
flight_result_strict(status, body, origin_code, destination_code) ==
    IF status /= HttpOK \/ ~body.has_data \/ Len(body.data) = 0
    THEN Raised("ProviderError", body.text)
    ELSE Returned(flight_records(body.data, origin_code, destination_code))

\* FlightSearchTool._run, from the response of the flight-offers request on.
flight_result(status, body, origin_code, destination_code) ==
    IF status /= HttpOK
    THEN Raised("ProviderError", body.text)
    ELSE IF ~body.has_data \/ Len(body.data) = 0
         THEN Returned(<<>>)
         ELSE Returned(flight_records(body.data, origin_code, destination_code))

\* FlightSearchTool._run, up to its first request.
CallFlightRun ==
    /\ pc = "idle"
    /\ \E origin_city \in SearchCities, destination_city \in SearchCities :
         LET origin == get_city_code("flight", origin_city)
             destination == get_city_code("flight", destination_city)
         IN  /\ op' = "flight_run"
             /\ self' = "flight"
             /\ IF origin.status = "raised" \/ destination.status = "raised"
                THEN /\ args' = [origin_city |-> origin_city,
                                 destination_city |-> destination_city,
                                 origin_code |-> None, destination_code |-> None]
                     /\ result' = IF origin.status = "raised" THEN origin ELSE destination
                     /\ pc' = "done"
                     /\ UNCHANGED <<cont, bearer, requests, tcalls>>
                ELSE /\ args' = [origin_city |-> origin_city,
                                 destination_city |-> destination_city,
                                 origin_code |-> origin.value,
                                 destination_code |-> destination.value]
                     /\ get_amadeus_token("flight",
                            Req("flights", <<origin.value, destination.value>>))
    /\ UNCHANGED <<now, amadeus_token, issued, city_hotels, pending,
                   available_hotels, nearby_places, detailed_places, response, answered, priced, nearby_found>>

FlightResponse ==
    /\ pc = "await_flights"
    /\ answered' = answered + 1
    /\ \E resp \in FlightResponses :
         /\ response' = [kind |-> "flights", status |-> resp.status, body |-> resp.body]
         /\ result' = flight_result(resp.status, resp.body, args.origin_code,
                                    args.destination_code)
    /\ pc' = "done"
    /\ UNCHANGED <<now, amadeus_token, issued, op, self, cont, args, bearer,
                   city_hotels, pending, available_hotels, nearby_places,
                   detailed_places, requests, priced, nearby_found, tcalls>>

-----------------------------------------------------------------------------
(* Hotel search. *)

HotelId(i) == "H" \o ToString(i)

\* The provider lists n hotels, in ascending or in descending order of id.
Listings ==
    {[i \in 1..n |-> [hotelId |-> HotelId(i)]] : n \in 0..MaxListed} \cup
    {[i \in 1..n |-> [hotelId |-> HotelId(n + 1 - i)]] : n \in 0..MaxListed}
ListingResponses ==
    {[status |-> 200, body |-> [has_data |-> TRUE, data |-> d, text |-> "hotels"]] :
        d \in Listings} \cup
    {[status |-> 200, body |-> [NoBody EXCEPT !.text = "{}"]],
     [status |-> 500, body |-> [NoBody EXCEPT !.text = "server error"]]}

\* The values of max_hotels a search is called with (the default is 10).
MaxHotelsArgs == {-1, 0, 1, MaxListed}

\* The offer the provider holds for a hotel, and the answers of a price call.
OfferOf(hotel_id) ==
    [hotel |-> [name |-> "Hotel " \o hotel_id],
     room |-> "standard", total |-> "120.00", currency |-> "EUR"]
PriceResponses(hotel_id) ==
    {[status |-> 200, body |-> [has_data |-> TRUE, data |-> <<OfferOf(hotel_id)>>,
                                text |-> "offers"]],
     [status |-> 200, body |-> [has_data |-> TRUE, data |-> <<>>, text |-> "no offers"]],
     [status |-> 200, body |-> [NoBody EXCEPT !.text = "{}"]],
     [status |-> 400, body |-> [NoBody EXCEPT !.text = "no rooms"]]}

\* search_hotel_offers returns None: a sequence holds the offer, if any.
NoOffer == <<>>

\* A faulty variant of search_hotels_by_city_result: a failed listing is raised,
\* as a failed flight search is.
search_hotels_by_city_raising(status, body) ==
    IF status /= HttpOK
    THEN Raised("ProviderError", body.text)
    ELSE Returned(IF body.has_data THEN body.data ELSE <<>>)

\* search_hotels_by_city, from the response of the listing request on:
\* return [] on a status other than 200, else response.json().get("data", []).
search_hotels_by_city_result(status, body) ==
    IF status /= HttpOK
    THEN Returned(<<>>)
    ELSE Returned(IF body.has_data THEN body.data ELSE <<>>)

\* A faulty variant of search_hotel_offers_result: a failed price call is raised,
\* as a failed detail call of the nearby-place search is.
search_hotel_offers_raising(status, body) ==
    IF status /= HttpOK
    THEN Raised("ProviderError", body.text)
    ELSE IF body.has_data /\ Len(body.data) > 0
         THEN Returned(<<body.data[1]>>)
         ELSE Returned(NoOffer)

\* search_hotel_offers, from the response of the price request on: return
\* None on a status other than 200 or on no data, else data["data"][0].
search_hotel_offers_result(status, body) ==
    IF status /= HttpOK
    THEN Returned(NoOffer)
    ELSE IF body.has_data /\ Len(body.data) > 0
         THEN Returned(<<body.data[1]>>)
         ELSE Returned(NoOffer)

\* The record _run builds of one priced hotel.
hotel_info(hotel_offer) ==
    [hotel_name |-> hotel_offer.hotel.name, room_description |-> hotel_offer.room,
     total_price |-> hotel_offer.total, currency |-> hotel_offer.currency]

\* A faulty variant of candidates: the cut listing is visited last hotel first.
candidates_reversed(hotels, max_hotels) ==
    LET cut == SliceTo(hotels, max_hotels)
    IN  [i \in 1..Len(cut) |-> cut[Len(cut) + 1 - i]]

\* A faulty variant of candidates: the listing is not cut.
candidates_uncut(hotels, max_hotels) == hotels

\* city_hotels[:max_hotels], the hotels _run asks a price for.
candidates(hotels, max_hotels) == SliceTo(hotels, max_hotels)

\* The for loop of HotelSearchTool._run visits its next hotel, or ends.
HotelLoop(todo, found) ==
    /\ pending' = todo
    /\ available_hotels' = found
    /\ IF Len(todo) = 0
       THEN /\ result' = Returned(found)
            /\ pc' = "done"
            /\ UNCHANGED <<cont, bearer, requests, tcalls>>
       ELSE get_amadeus_token("hotel", Req("price", todo[1].hotelId))

\* HotelSearchTool._run, up to its first request.
CallHotelRun ==
    /\ pc = "idle"
    /\ \E city_name \in SearchCities, max_hotels \in MaxHotelsArgs :
         LET city == get_city_code("hotel", city_name)
         IN  /\ op' = "hotel_run"
             /\ self' = "hotel"
             /\ args' = [city_name |-> city_name, max_hotels |-> max_hotels]
             /\ IF city.status = "raised"
                THEN /\ result' = city
                     /\ pc' = "done"
                     /\ UNCHANGED <<cont, bearer, requests, tcalls>>
                ELSE get_amadeus_token("hotel", Req("listing", city.value))
    /\ UNCHANGED <<now, amadeus_token, issued, city_hotels, pending,
                   available_hotels, nearby_places, detailed_places, response, answered, priced, nearby_found>>

\* HotelSearchTool._run, from the response of the listing request on.
ListingResponse ==
    /\ pc = "await_listing"
    /\ answered' = answered + 1
    /\ \E resp \in ListingResponses :
         LET listed == search_hotels_by_city_result(resp.status, resp.body)
         IN  /\ response' = [kind |-> "listing", status |-> resp.status,
                             body |-> resp.body]
             /\ IF listed.status = "raised"
                THEN \* an exception of search_hotels_by_city leaves _run
                     /\ result' = listed
                     /\ pc' = "done"
                     /\ UNCHANGED <<city_hotels, pending, available_hotels, cont,
                                    bearer, requests, tcalls>>
                ELSE /\ city_hotels' = listed.value
                     /\ HotelLoop(candidates(city_hotels', args.max_hotels), <<>>)
    /\ UNCHANGED <<now, amadeus_token, issued, op, self, args, nearby_places,
                   detailed_places, priced, nearby_found>>

\* HotelSearchTool._run, from the response of a price request on.
PriceResponse ==
    /\ pc = "await_price"
    /\ answered' = answered + 1
    /\ \E resp \in PriceResponses(pending[1].hotelId) :
         LET hotel_offer == search_hotel_offers_result(resp.status, resp.body)
         IN  /\ response' = [kind |-> "price", status |-> resp.status,
                             body |-> resp.body]
             /\ priced' = Append(priced,
                    [hotelId |-> pending[1].hotelId,
                     ok |-> resp.status = 200 /\ resp.body.data /= <<>>])
             /\ IF hotel_offer.status = "raised"
                THEN \* an exception of search_hotel_offers leaves _run
                     /\ result' = hotel_offer
                     /\ pc' = "done"
                     /\ UNCHANGED <<pending, available_hotels, cont, bearer,
                                    requests, tcalls>>
                ELSE HotelLoop(Tail(pending),
                        IF hotel_offer.value /= NoOffer
                        THEN Append(available_hotels, hotel_info(hotel_offer.value[1]))
                        ELSE available_hotels)
    /\ UNCHANGED <<now, amadeus_token, issued, op, self, args, city_hotels,
                   nearby_places, detailed_places, nearby_found>>

-----------------------------------------------------------------------------
(* Nearby-place search. *)

NearbyCap == 5

PlaceId(i) == "P" \o ToString(i)
PlaceNames == {"Osaka Castle"}
PlaceStatuses == {"OK", "ZERO_RESULTS", "OVER_QUERY_LIMIT"}
Location == <<34, 135>>

\* The provider's nearby search finds n places.
NearbyResults == {[i \in 1..n |-> [place_id |-> PlaceId(i)]] : n \in 0..MaxPlaces}

\* The record get_place_details builds of the provider's answer.
place_details(place) ==
    [name |-> place.name, address |-> place.formatted_address]
DetailOf(place_id) ==
    [name |-> "Place " \o place_id, formatted_address |-> "Osaka"]

\* A faulty variant of find_nearby_places_result: the results are not cut.
find_nearby_places_uncut(results) == results

\* find_nearby_places returns response["results"][:5].
find_nearby_places_result(results) == SliceTo(results, NearbyCap)

\* A faulty variant of PlaceFailed: the failed place is skipped and the loop goes on.
PlaceFailed_skip(stage, status) ==
    IF stage = "details" /\ Len(pending) > 1
    THEN /\ Issue(Req("details", pending[2].place_id))
         /\ pending' = Tail(pending)
         /\ UNCHANGED <<result, nearby_places, detailed_places>>
    ELSE /\ result' = Returned(detailed_places)
         /\ pc' = "done"
         /\ UNCHANGED <<requests, pending, nearby_places, detailed_places>>

\* raise Exception(f"...: {response['status']}") at one of the three stages.
PlaceFailed(stage, status) ==
    /\ result' = Raised("ProviderError", status)
    /\ pc' = "done"
    /\ UNCHANGED <<requests, pending, nearby_places, detailed_places>>

\* The list comprehension of NearbyPlacesTool._run visits its next place, or ends.
PlaceLoop(todo, found) ==
    /\ pending' = todo
    /\ detailed_places' = found
    /\ IF Len(todo) = 0
       THEN /\ result' = Returned(found)
            /\ pc' = "done"
            /\ UNCHANGED requests
       ELSE /\ Issue(Req("details", todo[1].place_id))
            /\ result' = result

\* NearbyPlacesTool._run, up to its first request.
CallNearbyRun ==
    /\ pc = "idle"
    /\ \E place_name \in PlaceNames :
         /\ op' = "nearby_run"
         /\ args' = [place_name |-> place_name]
         /\ Issue(Req("textsearch", place_name))
    /\ UNCHANGED <<now, amadeus_token, issued, self, cont, bearer, city_hotels,
                   pending, available_hotels, nearby_places, detailed_places,
                   result, response, answered, priced, nearby_found, tcalls>>

\* get_location_by_name, from the response on, then find_nearby_places.
TextSearchResponse ==
    /\ pc = "await_textsearch"
    /\ answered' = answered + 1
    /\ \E status \in PlaceStatuses :
         /\ response' = [kind |-> "textsearch", status |-> status, body |-> Location]
         /\ IF status /= "OK"
            THEN PlaceFailed("textsearch", status)
            ELSE /\ Issue(Req("nearbysearch", Location))
                 /\ UNCHANGED <<result, pending, nearby_places, detailed_places>>
    /\ UNCHANGED <<now, amadeus_token, issued, op, self, cont, args, bearer,
                   city_hotels, available_hotels, priced, nearby_found, tcalls>>

\* find_nearby_places, from the response on, then the first get_place_details.
NearbySearchResponse ==
    /\ pc = "await_nearbysearch"
    /\ answered' = answered + 1
    /\ \E status \in PlaceStatuses, results \in NearbyResults :
         /\ response' = [kind |-> "nearbysearch", status |-> status,
                         body |-> IF status = "OK" THEN results ELSE <<>>]
         /\ nearby_found' = IF status = "OK" THEN Len(results) ELSE 0
         /\ IF status /= "OK"
            THEN PlaceFailed("nearbysearch", status)
            ELSE /\ nearby_places' = find_nearby_places_result(results)
                 /\ PlaceLoop(nearby_places', <<>>)
    /\ UNCHANGED <<now, amadeus_token, issued, op, self, cont, args, bearer,
                   city_hotels, available_hotels, priced, tcalls>>

\* get_place_details, from the response on, then the next get_place_details.
DetailsResponse ==
    /\ pc = "await_details"
    /\ answered' = answered + 1
    /\ \E status \in PlaceStatuses :
         /\ response' = [kind |-> "details", status |-> status,
                         body |-> pending[1].place_id]
         /\ IF status /= "OK"
            THEN PlaceFailed("details", status)
            ELSE /\ PlaceLoop(Tail(pending),
                        Append(detailed_places,
                               place_details(DetailOf(pending[1].place_id))))
                 /\ UNCHANGED nearby_places
    /\ UNCHANGED <<now, amadeus_token, issued, op, self, cont, args, bearer,
                   city_hotels, available_hotels, priced, nearby_found, tcalls>>

-----------------------------------------------------------------------------
(* Currency conversion. *)

Currencies == {"USD", "KRW"}
Amounts == {100}

\* What the pair-conversion endpoint can answer.  Amounts and rates are in
\* hundredths.
PairResponses ==
    {[status |-> 200, result |-> "success", conversion_result |-> cr,
      conversion_rate |-> rate, error_type |-> None, text |-> "ok"] :
        cr \in {13250, 13251}, rate \in {132, 133}} \cup
    {[status |-> 200, result |-> "error", conversion_result |-> 0,
      conversion_rate |-> 0, error_type |-> "unsupported-code", text |-> "error"],
     [status |-> 404, result |-> "error", conversion_result |-> 0,
      conversion_rate |-> 0, error_type |-> "malformed-request", text |-> "not found"],
     [status |-> 403, result |-> "success", conversion_result |-> 13250,
      conversion_rate |-> 132, error_type |-> None, text |-> "forbidden"]}

\* A faulty variant of exchange_result: the status code is not looked at.
exchange_result_nostatus(resp, from_currency, to_currency, amount) ==
    IF resp.result /= "success"
    THEN Raised("ConversionFailure", resp.error_type)
    ELSE Returned([from_currency |-> from_currency, to_currency |-> to_currency,
                   original_amount |-> amount,
                   converted_amount |-> resp.conversion_result,
                   conversion_rate |-> resp.conversion_rate])

\* ExchangeRateTool._run, from the response of the pair request on.
exchange_result(resp, from_currency, to_currency, amount) ==
    IF resp.status /= HttpOK
    THEN Raised("ProviderError", resp.text)
    ELSE IF resp.result /= "success"
         THEN Raised("ConversionFailure", resp.error_type)
         ELSE Returned([from_currency |-> from_currency, to_currency |-> to_currency,
                        original_amount |-> amount,
                        converted_amount |-> resp.conversion_result,
                        conversion_rate |-> resp.conversion_rate])

\* ExchangeRateTool._run, up to its request.
CallExchangeRun ==
    /\ pc = "idle"
    /\ \E from_currency \in Currencies, to_currency \in Currencies, amount \in Amounts :
         /\ op' = "exchange_run"
         /\ args' = [from_currency |-> from_currency, to_currency |-> to_currency,
                     amount |-> amount]
         /\ Issue(Req("pair", <<from_currency, to_currency, amount>>))
    /\ UNCHANGED <<now, amadeus_token, issued, self, cont, bearer, city_hotels,
                   pending, available_hotels, nearby_places, detailed_places,
                   result, response, answered, priced, nearby_found, tcalls>>

PairResponse ==
    /\ pc = "await_pair"
    /\ answered' = answered + 1
    /\ \E resp \in PairResponses :
         /\ response' = [kind |-> "pair", status |-> resp.status, body |-> resp]
         /\ result' = exchange_result(resp, args.from_currency, args.to_currency,
                                      args.amount)
    /\ pc' = "done"
    /\ UNCHANGED <<now, amadeus_token, issued, op, self, cont, args, bearer,
                   city_hotels, pending, available_hotels, nearby_places,
                   detailed_places, requests, priced, nearby_found, tcalls>>

\* Time passes.
Tick ==
    /\ now + TickStep <= MaxTime
    /\ now' = now + TickStep
    /\ UNCHANGED <<amadeus_token, op, pc, self, cont, args, bearer, city_hotels,
                   pending, available_hotels, nearby_places, detailed_places,
                   result, requests, response, answered, priced, nearby_found, tcalls, issued>>

\* The call is over; the tool waits for the next one.  Only the clock and the
\* token caches outlive a call.
Return ==
    /\ pc = "done"
    /\ op' = "idle"
    /\ pc' = "idle"
    /\ self' = None
    /\ cont' = NoCont
    /\ args' = <<>>
    /\ bearer' = None
    /\ city_hotels' = <<>>
    /\ pending' = <<>>
    /\ available_hotels' = <<>>
    /\ nearby_places' = <<>>
    /\ detailed_places' = <<>>
    /\ result' = NoResult
    /\ requests' = <<>>
    /\ response' = NoResponse
    /\ priced' = <<>>
    /\ nearby_found' = 0
    /\ answered' = 0
    /\ tcalls' = 0
    /\ UNCHANGED <<now, amadeus_token, issued>>

Init ==
    /\ now = 0
    /\ amadeus_token = [tool \in Tools |-> InitialToken]
    /\ issued = [tool \in Tools |-> NoIssue]
    /\ op = "idle"
    /\ pc = "idle"
    /\ self = None
    /\ cont = NoCont
    /\ args = <<>>
    /\ bearer = None
    /\ city_hotels = <<>>
    /\ pending = <<>>
    /\ available_hotels = <<>>
    /\ nearby_places = <<>>
    /\ detailed_places = <<>>
    /\ result = NoResult
    /\ requests = <<>>
    /\ response = NoResponse
    /\ priced = <<>>
    /\ nearby_found = 0
    /\ answered = 0
    /\ tcalls = 0

Next ==
    \/ CallGetToken
    \/ CallGetCityCode
    \/ TokenResponse
    \/ CallFlightRun
    \/ FlightResponse
    \/ CallHotelRun
    \/ ListingResponse
    \/ PriceResponse
    \/ CallNearbyRun
    \/ TextSearchResponse
    \/ NearbySearchResponse
    \/ DetailsResponse
    \/ CallExchangeRun
    \/ PairResponse
    \/ Tick
    \/ Return

Spec == Init /\ [][Next]_vars

-----------------------------------------------------------------------------
(* Properties. *)

\* A step in which a blocked call receives its response (time does not pass).
Answered(at) == pc = at /\ now' = now

\* C1: for each Amadeus tool, once a credential exchange has succeeded at
\* time t with lifetime expires_in, a get_amadeus_token call at a time before
\* t + expires_in - 60 returns the token of that exchange and sends no
\* credential-exchange request; a call at or after that time sends exactly one
\* credential-exchange request, and on its success returns the token that
\* exchange issued.
C1_TokenCache ==
    [][ /\ (tcalls' = tcalls + 1 /\ issued[self'] /= NoIssue) =>
              LET last == issued[self']
              IN  IF now < last.at + last.expires_in - 60
                  THEN /\ bearer' = last.token
                       /\ Exchanges(requests') = Exchanges(requests)
                       /\ op' = "get_amadeus_token" => result' = Returned(last.token)
                  ELSE /\ requests' = Append(requests, <<"token", self'>>)
                       /\ pc' = "await_token"
                       /\ result'.status = "none"
        /\ (Answered("await_token") /\ response'.status = 200) =>
              /\ Exchanges(requests') = Exchanges(requests)
              /\ bearer' = response'.body
              /\ op = "get_amadeus_token" => result' = Returned(response'.body)
      ]_vars

\* C1 witness: a direct call, made after time has passed since the last
\* exchange, got the cached token without any request.
C1_Witness ==
    /\ op = "get_amadeus_token"
    /\ pc = "done"
    /\ requests = <<>>
    /\ issued[self] /= NoIssue
    /\ now > issued[self].at
    /\ result = Returned(issued[self].token)

\* C2: when the credential exchange of a get_amadeus_token call is answered
\* with a status other than 200, the call raises AuthFailure with the
\* response body, sends no further request and returns no token; no call
\* sends more than one credential-exchange request.
C2_AuthFailure ==
    [][ /\ (Answered("await_token") /\ response'.status /= 200) =>
              /\ pc' = "done"
              /\ result' = Raised("AuthFailure", response'.body)
              /\ result'.value = None
              /\ bearer' = None
              /\ requests' = requests
        /\ Exchanges(requests') <= tcalls'
      ]_vars

\* C2 witness: a direct call whose one exchange was refused.
C2_Witness ==
    /\ op = "get_amadeus_token"
    /\ pc = "done"
    /\ requests = <<<<"token", self>>>>
    /\ response.status = 401
    /\ result = Raised("AuthFailure", "invalid_client")

\* C3: get_city_code of either tool returns the code its table maps the
\* name to, and raises UnknownLocation, returning no code, for a name that is
\* no key of its table.
C3_CityCode ==
    (op = "get_city_code" /\ pc = "done") =>
        LET table == IF args.tool = "flight" THEN FlightCityCodes ELSE HotelCityCodes
        IN  IF args.city_name \in DOMAIN table
            THEN result.status = "returned" /\ result.value = table[args.city_name]
            ELSE /\ result.status = "raised"
                 /\ result.error = "UnknownLocation"
                 /\ result.value = None

\* C3 witness: a name the flight table holds and the hotel table does not,
\* looked up in the hotel tool.
C3_Witness ==
    /\ op = "get_city_code"
    /\ pc = "done"
    /\ args.tool = "hotel"
    /\ args.city_name = "Bali"
    /\ result.status = "raised"

\* The hotel search ended on the answer of its listing request, which was
\* not a success.
ListingFailed ==
    /\ op = "hotel_run"
    /\ pc = "done"
    /\ response.kind = "listing"
    /\ response.status /= 200

\* C4 as claimed: a listing request answered with a status other than 200
\* makes the hotel search raise ProviderError.
C4_ListingRaises ==
    ListingFailed => (result.status = "raised" /\ result.error = "ProviderError")

\* C4 as amended: a listing request answered with a status other than 200
\* makes the hotel search return the empty list, with no price request sent
\* and nothing raised.
C4_ListingFailureIsEmpty ==
    ListingFailed =>
        /\ result = Returned(<<>>)
        /\ CountKind(requests, "price") = 0
        /\ city_hotels = <<>>

C4_Witness ==
    /\ ListingFailed
    /\ response.status = 500
    /\ result.status = "returned"

\* The records of the candidates whose price call succeeded with data.
RECURSIVE PricedOk(_)
PricedOk(log) ==
    IF log = <<>>
    THEN <<>>
    ELSE LET rest == PricedOk(Tail(log))
         IN  IF Head(log).ok
             THEN <<hotel_info(OfferOf(Head(log).hotelId))>> \o rest
             ELSE rest

\* C5: a price call answered with a status other than 200, or without data,
\* does not fail the hotel search: the search goes on to the next candidate,
\* and a search that returns has sent a price request for every candidate and
\* returns exactly the candidates whose price call was answered 200 with data.
C5_PartialFailure ==
    [][ /\ (Answered("await_price") /\
              (response'.status /= 200 \/ response'.body.data = <<>>)) =>
              /\ result'.status /= "raised"
              /\ available_hotels' = available_hotels
              /\ IF Len(pending) > 1
                 THEN /\ pc' \in {"await_price", "await_token"}
                      /\ Len(requests') = Len(requests) + 1
                      /\ pending' = Tail(pending)
                 ELSE pc' = "done" /\ result' = Returned(available_hotels)
        /\ (op' = "hotel_run" /\ pc' = "done" /\ result'.status = "returned") =>
              /\ result'.value = PricedOk(priced')
              /\ [i \in 1..Len(priced') |-> [hotelId |-> priced'[i].hotelId]]
                    = SliceTo(city_hotels', args'.max_hotels)
      ]_vars

\* C5 witness: of two candidates the first one's price call failed and the
\* second one's succeeded, and the search returned the second alone.
C5_Witness ==
    /\ op = "hotel_run"
    /\ pc = "done"
    /\ Len(priced) = 2
    /\ ~priced[1].ok
    /\ priced[2].ok
    /\ result.status = "returned"
    /\ Len(result.value) = 1

HotelReturned == op = "hotel_run" /\ pc = "done" /\ result.status = "returned"

C7_AtMostFivePlaces ==
    op = "nearby_run" =>
        /\ CountKind(requests, "details") <= 5
        /\ Len(detailed_places) <= 5
        /\ (pc = "done" /\ result.status = "returned") => Len(result.value) <= 5

\* C7 witness: the provider answered more than 5 places, 5 were returned.
C7_Witness ==
    /\ op = "nearby_run"
    /\ pc = "done"
    /\ nearby_found > 5
    /\ result.status = "returned"
    /\ Len(result.value) = 5
    /\ CountKind(requests, "details") = 5

\* C8: in the nearby-place search, a response whose status is not "OK", at
\* any of the three stages, ends the search at once with a raised error: no
\* further request is sent and no list is returned, whatever was collected.
C8_FailFast ==
    [][ (/\ op = "nearby_run"
         /\ \/ Answered("await_textsearch")
            \/ Answered("await_nearbysearch")
            \/ Answered("await_details")
         /\ response'.status /= "OK") =>
            /\ pc' = "done"
            /\ result'.status = "raised"
            /\ result'.value = None
            /\ requests' = requests
      ]_vars

\* C8 witness: the detail request of the third place failed after two
\* places had been detailed, and the search raised.
C8_Witness ==
    /\ op = "nearby_run"
    /\ pc = "done"
    /\ response.kind = "details"
    /\ response.status /= "OK"
    /\ Len(detailed_places) = 2
    /\ result.status = "raised"

\* C9: a flight search whose request is answered 200 returns one record per
\* offer of the response, in the response's order: the empty sequence when
\* the response has no data or no offers.
C9_FlightOffers ==
    (op = "flight_run" /\ pc = "done" /\ response.kind = "flights"
        /\ response.status = 200) =>
        LET data == IF response.body.has_data THEN response.body.data ELSE <<>>
        IN  /\ result.status = "returned"
            /\ Len(result.value) = Len(data)
            /\ \A i \in 1..Len(data) :
                  /\ result.value[i].price = data[i].total
                  /\ result.value[i].airline = data[i].carrierCode
                  /\ result.value[i].origin = FlightCityCodes[args.origin_city]
                  /\ result.value[i].destination = FlightCityCodes[args.destination_city]

\* C9 witness: a 200 response without offers, and the empty list returned.
C9_Witness ==
    /\ op = "flight_run"
    /\ pc = "done"
    /\ response.kind = "flights"
    /\ response.status = 200
    /\ response.body.has_data
    /\ response.body.data = <<>>
    /\ result = Returned(<<>>)

\* C10: a currency conversion returns a record only when the response has
\* status 200 and result "success", and the record then holds the response's
\* conversion_result and conversion_rate as they are; any other response
\* raises ProviderError or ConversionFailure and no record is produced.
C10_Conversion ==
    (op = "exchange_run" /\ pc = "done") =>
        LET r == response.body
        IN  IF r.status = 200 /\ r.result = "success"
            THEN /\ result.status = "returned"
                 /\ result.value.converted_amount = r.conversion_result
                 /\ result.value.conversion_rate = r.conversion_rate
                 /\ result.value.original_amount = args.amount
            ELSE /\ result.status = "raised"
                 /\ result.error =
                        IF r.status /= 200 THEN "ProviderError" ELSE "ConversionFailure"
                 /\ result.value = None

\* C10 witness: a response with a status other than 200, and the call raised.
C10_Witness ==
    /\ op = "exchange_run"
    /\ pc = "done"
    /\ response.status = 403
    /\ result.status = "raised"
    /\ result.error = "ProviderError"

\* The requests of a log that are no credential exchange.
NonToken(log) == SelectSeq(log, LAMBDA r : Kind(r) /= "token")

\* How many of n listed hotels a search called with max_hotels = m prices.
Priced(n, m) == IF m >= 0 THEN Min(n, m) ELSE Max(n + m, 0)

\* The listing request and the price requests of the running hotel search,
\* one per candidate, in listing order.
HotelPlan ==
    <<<<"listing", HotelCityCodes[args.city_name]>>>> \o
    [i \in 1..Priced(Len(city_hotels), args.max_hotels) |->
        <<"price", city_hotels[i].hotelId>>]

Stale(tool) ==
    \/ amadeus_token[tool].access_token = None
    \/ now >= amadeus_token[tool].expires_at

\* C12: a failed credential exchange leaves the cached token and its expiry
\* as they were, and the cache is then expired or empty; an expired or empty
\* cache stays so until an exchange succeeds; and a get_amadeus_token call on
\* an expired or empty cache sends a credential exchange and returns no
\* cached token.
C12_FailureKeepsCache ==
    [][ /\ (Answered("await_token") /\ response'.status /= 200) =>
              /\ amadeus_token' = amadeus_token
              /\ Stale(self)'
        /\ \A tool \in Tools :
              (Stale(tool) /\ ~(Answered("await_token") /\ response'.status = 200
                                /\ self = tool)) => Stale(tool)'
        /\ (tcalls' = tcalls + 1 /\ Stale(self')) =>
              /\ requests' = Append(requests, <<"token", self'>>)
              /\ bearer' = None
              /\ result'.status = "none"
      ]_vars

\* C12 witness: a call found an expired token in the cache, its exchange was
\* refused, and the expired token is still there.
C12_Witness ==
    /\ op = "get_amadeus_token"
    /\ pc = "done"
    /\ result.error = "AuthFailure"
    /\ amadeus_token[self].access_token \in Tokens
    /\ amadeus_token[self].expires_at > 0
    /\ now >= amadeus_token[self].expires_at
    /\ amadeus_token[self].access_token = issued[self].token

\* C13: in a hotel search, a get_amadeus_token call that finds the cache
\* expired or empty sends a credential exchange before the listing or price
\* request; when that exchange is refused the search ends at once raising
\* AuthFailure: it sends nothing more and returns no list, whatever
\* candidates it has priced; no search that returns a list ended on the
\* answer of a credential exchange.
C13_AuthFailureFailsSearch ==
    [][ /\ (op' = "hotel_run" /\ tcalls' = tcalls + 1 /\ Stale("hotel")) =>
              pc' = "await_token"
        /\ (op = "hotel_run" /\ Answered("await_token") /\ response'.status /= 200) =>
              /\ pc' = "done"
              /\ result' = Raised("AuthFailure", response'.body)
              /\ result'.value = None
              /\ requests' = requests
        /\ (op' = "hotel_run" /\ result'.status = "returned") =>
              response'.kind \in {"listing", "price"}
      ]_vars

\* C13 witness: the first candidate was priced and collected, the exchange
\* ahead of the second price call was refused, and the search raised.
C13_Witness ==
    /\ op = "hotel_run"
    /\ pc = "done"
    /\ Len(available_hotels) = 1
    /\ Len(pending) = 1
    /\ response.kind = "token"
    /\ response.status = 401
    /\ result = Raised("AuthFailure", "rate_limited")

\* C14: every city name the hotel tool's get_city_code resolves, the flight
\* tool's resolves to the same code, and some name the flight tool resolves
\* the hotel tool rejects with UnknownLocation; whatever a get_city_code call
\* on the hotel tool returned, the flight tool returns for the same name.
C14_HotelTableSubMap ==
    /\ \A city_name \in CityNames :
          get_city_code("hotel", city_name).status = "returned" =>
              get_city_code("flight", city_name) = get_city_code("hotel", city_name)
    /\ \E city_name \in CityNames :
          /\ get_city_code("flight", city_name).status = "returned"
          /\ get_city_code("hotel", city_name).error = "UnknownLocation"
    /\ (op = "get_city_code" /\ pc = "done" /\ args.tool = "hotel"
            /\ result.status = "returned") =>
          get_city_code("flight", args.city_name) = result

\* C14 witness: a hotel search for a city the flight tool resolves ended
\* with UnknownLocation before any request.
C14_Witness ==
    /\ op = "hotel_run"
    /\ pc = "done"
    /\ result.error = "UnknownLocation"
    /\ requests = <<>>
    /\ get_city_code("flight", args.city_name) = Returned("DPS")

====
